---- MODULE Spec2Model ----
(***************************************************************************)
(* Model of wikibase_api.models.reference.Reference: the three request     *)
(* builders add, update and remove, each followed by the hand-over of the  *)
(* request parameters to self.api.post.                                    *)
(*                                                                         *)
(* Python values are tagged tuples: None is <<"None">>, a str is           *)
(* <<"str", s>>, an int is <<"int", n>>, a list is <<"list", items>> and a *)
(* dict is <<"dict", pairs>> with pairs the sequence of <<key, value>> in  *)
(* insertion order.  Text the code only passes along is a TLA+ string;     *)
(* text the code computes (str(index), "|".join(...)) is a sequence of     *)
(* characters.  A JSON document is its syntax tree: <<"null">>,            *)
(* <<"string", s>>, <<"number", n>>, <<"array", elements>> and             *)
(* <<"object", members>> with members the sequence of <<key, value>> in    *)
(* document order.                                                         *)
(***************************************************************************)
EXTENDS Integers, Sequences, FiniteSets, TLC

VARIABLES pc, op, args, snak_dict, snaks_order, pos, params, posted, outcome

vars == <<pc, op, args, snak_dict, snaks_order, pos, params, posted, outcome>>

\* ------------------------------------------------------------------ bounds

\* Longest snaks list passed to update.
MaxSnaks == 3
\* Longest reference_ids list passed to remove.
MaxIds == 3
\* Largest index passed to add and update.
MaxIndex == 10

\* ------------------------------------------------------------ Python values

None == <<"None">>
PyStr(s) == <<"str", s>>
PyInt(n) == <<"int", n>>
PyList(items) == <<"list", items>>
PyDict(pairs) == <<"dict", pairs>>

\* Truth value of an object, as tested by `if data_type:`.
truthy(v) ==
    CASE v[1] = "None" -> FALSE
      [] v[1] = "str" -> v[2] # ""
      [] v[1] = "int" -> v[2] # 0
      [] v[1] = "list" -> Len(v[2]) > 0
      [] v[1] = "dict" -> Len(v[2]) > 0

\* d[key] of a dict holding the key.
dict_get(d, key) ==
    LET k == CHOOSE k \in 1..Len(d[2]) : d[2][k][1] = key
    IN  d[2][k][2]

dict_has(d, key) == \E k \in 1..Len(d[2]) : d[2][k][1] = key

\* d[key] = value: a new key goes last, an old key keeps its place.
dict_set(d, key, value) ==
    IF dict_has(d, key)
    THEN PyDict([k \in 1..Len(d[2]) |->
                    IF d[2][k][1] = key THEN <<key, value>> ELSE d[2][k]])
    ELSE PyDict(Append(d[2], <<key, value>>))

\* ---------------------------------------------------------------- builtins

DigitChars == <<"0", "1", "2", "3", "4", "5", "6", "7", "8", "9">>

RECURSIVE digits(_)
digits(n) ==
    IF n < 10 THEN <<DigitChars[n + 1]>>
    ELSE digits(n \div 10) \o <<DigitChars[(n % 10) + 1]>>

\* str(index) of an int: its decimal digits, with a sign when negative.
str(n) == IF n < 0 THEN <<"-">> \o digits(-n) ELSE digits(n)

RECURSIVE join(_, _)
\* sep.join(items): the items' characters with sep between neighbours.
join(sep, items) ==
    IF Len(items) = 0 THEN <<>>
    ELSE IF Len(items) = 1 THEN items[1]
    ELSE items[1] \o sep \o join(sep, Tail(items))

RECURSIVE json_dumps(_)
\* json.dumps: None becomes null, a dict an object whose members keep the
\* dict's insertion order, a list an array.
json_dumps(v) ==
    CASE v[1] = "None" -> <<"null">>
      [] v[1] = "str" -> <<"string", v[2]>>
      [] v[1] = "int" -> <<"number", v[2]>>
      [] v[1] = "list" ->
            <<"array", [k \in 1..Len(v[2]) |-> json_dumps(v[2][k])]>>
      [] v[1] = "dict" ->
            <<"object", [k \in 1..Len(v[2]) |->
                            <<v[2][k][1], json_dumps(v[2][k][2])>>]>>

\* --------------------------------------------------------------- validator

\* validate_snak(value, snak_type): TRUE when it returns, FALSE when it raises.
validate_snak(value, snak_type) ==
    /\ ~(snak_type \in {"novalue", "somevalue"} /\ value # None)
    /\ ~(snak_type = "value" /\ value = None)

\* ------------------------------------------------------------------ inputs

ClaimIds == {"Q2$ABC"}
PropertyIds == {"P1", "P2"}
SnakTypes == {"value", "novalue", "somevalue"}
Values == {None, PyStr("a")}
DataTypes == {None, PyStr(""), PyStr("url")}
Indexes == {None, PyInt(0), PyInt(MaxIndex)}
ReferenceHashes == {"9d5f"}
RefIds == {<<"H", "1">>, <<"H", "2">>, <<"K">>}

\* A snak of update's list: a dict with the three keys update reads.
Snaks ==
    {PyDict(<<<<"property", PyStr(p)>>, <<"snaktype", PyStr(t)>>,
              <<"datavalue", v>>>>) :
        p \in PropertyIds, t \in SnakTypes, v \in Values}

SeqsUpTo(S, n) == UNION {[1..k -> S] : k \in 0..n}

\* reference_ids: one str, or a list of strs.
ReferenceIdArgs ==
    {<<"str", r>> : r \in RefIds} \cup
    {<<"list", l>> : l \in SeqsUpTo(RefIds, MaxIds)}

NoArgs == <<>>
NoParams == <<>>
EmptyDict == PyDict(<<>>)

\* -------------------------------------------------------------------- add

\* Line 49 left out.
add_validate_skipped(value, snak_type) == TRUE

\* Line 49.
add_validate(value, snak_type) == validate_snak(value, snak_type)

\* Lines 51-52 with the test left out: the datatype key is always set.
add_snak_always_datatype(property_id, value, data_type, snak_type) ==
    PyDict(<<<<"snaktype", PyStr(snak_type)>>,
             <<"property", PyStr(property_id)>>,
             <<"datavalue", value>>,
             <<"datatype", data_type>>>>)

\* Lines 50-52.
add_snak(property_id, value, data_type, snak_type) ==
    LET snak == PyDict(<<<<"snaktype", PyStr(snak_type)>>,
                         <<"property", PyStr(property_id)>>,
                         <<"datavalue", value>>>>)
    IN  IF truthy(data_type) THEN dict_set(snak, "datatype", data_type)
        ELSE snak

\* Line 57 as `if index:`.
add_params_truthy_index(claim_id, property_id, snak, index) ==
    LET snak_encoded == json_dumps(PyDict(<<<<property_id, PyList(<<snak>>)>>>>))
        base == ("action" :> "wbsetreference") @@ ("statement" :> claim_id)
                    @@ ("snaks" :> snak_encoded)
    IN  IF truthy(index) THEN base @@ ("index" :> str(index[2])) ELSE base

\* Lines 53-58.
add_params(claim_id, property_id, snak, index) ==
    LET snak_encoded == json_dumps(PyDict(<<<<property_id, PyList(<<snak>>)>>>>))
        base == ("action" :> "wbsetreference") @@ ("statement" :> claim_id)
                    @@ ("snaks" :> snak_encoded)
    IN  IF index # None THEN base @@ ("index" :> str(index[2])) ELSE base

\* ----------------------------------------------------------------- update

\* Line 87 left out.
update_validate_skipped(snak) == TRUE

\* Line 87.
update_validate(snak) ==
    validate_snak(dict_get(snak, "datavalue"), dict_get(snak, "snaktype")[2])

\* Line 88 as snak_dict[property] = [snak].
snak_dict_overwrite(d, property, snak) ==
    dict_set(d, property, PyList(<<snak>>))

\* Line 88: snak_dict[property].append(snak) on a defaultdict of lists.
snak_dict_append(d, property, snak) ==
    IF dict_has(d, property)
    THEN dict_set(d, property, PyList(Append(dict_get(d, property)[2], snak)))
    ELSE dict_set(d, property, PyList(<<snak>>))

\* Line 89 as `if property not in snaks_order:`.
snaks_order_append_unseen(order, property) ==
    IF \A k \in 1..Len(order) : order[k] # property
    THEN Append(order, property)
    ELSE order

\* Lines 89-90.
snaks_order_append(order, property) ==
    IF Len(order) = 0 \/ order[Len(order)] # property
    THEN Append(order, property)
    ELSE order

\* Lines 92-101.
update_params(claim_id, reference_id, d, order, index) ==
    LET base == ("action" :> "wbsetreference") @@ ("statement" :> claim_id)
                    @@ ("reference" :> reference_id)
                    @@ ("snaks" :> json_dumps(d))
                    @@ ("snaks-order" :>
                            json_dumps(PyList([k \in 1..Len(order) |->
                                                  PyStr(order[k])])))
    IN  IF index # None THEN base @@ ("index" :> str(index[2])) ELSE base

\* ----------------------------------------------------------------- remove

\* Lines 118-121 without the isinstance test: a str is joined character by
\* character.
ids_encoded_always_join(reference_ids) ==
    IF reference_ids[1] = "str"
    THEN join(<<"|">>, [k \in 1..Len(reference_ids[2]) |->
                          <<reference_ids[2][k]>>])
    ELSE join(<<"|">>, reference_ids[2])

\* Lines 118-121.
ids_encoded(reference_ids) ==
    IF reference_ids[1] = "str" THEN reference_ids[2]
    ELSE join(<<"|">>, reference_ids[2])

\* Line 123.
remove_params(claim_id, reference_ids) ==
    ("action" :> "wbremovereferences") @@ ("statement" :> claim_id)
        @@ ("references" :> ids_encoded(reference_ids))

\* ---------------------------------------------------------------- actions

Init ==
    /\ pc = "idle"
    /\ op = "none"
    /\ args = NoArgs
    /\ snak_dict = EmptyDict
    /\ snaks_order = <<>>
    /\ pos = 0
    /\ params = NoParams
    /\ posted = <<>>
    /\ outcome = "none"

CallAdd ==
    /\ pc = "idle"
    /\ \E claim_id \in ClaimIds, property_id \in PropertyIds, value \in Values,
          data_type \in DataTypes, snak_type \in SnakTypes, index \in Indexes :
            args' = [claim_id |-> claim_id, property_id |-> property_id,
                     value |-> value, data_type |-> data_type,
                     snak_type |-> snak_type, index |-> index]
    /\ op' = "add"
    /\ pc' = "add_validate"
    /\ UNCHANGED <<snak_dict, snaks_order, pos, params, posted, outcome>>

AddValidate ==
    /\ pc = "add_validate"
    /\ IF add_validate(args.value, args.snak_type)
       THEN pc' = "add_build" /\ UNCHANGED outcome
       ELSE pc' = "raised" /\ outcome' = "InvalidSnakError"
    /\ UNCHANGED <<op, args, snak_dict, snaks_order, pos, params, posted>>

AddBuild ==
    /\ pc = "add_build"
    /\ params' = add_params(args.claim_id, args.property_id,
                            add_snak(args.property_id, args.value,
                                     args.data_type, args.snak_type),
                            args.index)
    /\ pc' = "post"
    /\ UNCHANGED <<op, args, snak_dict, snaks_order, pos, posted, outcome>>

CallUpdate ==
    /\ pc = "idle"
    /\ \E claim_id \in ClaimIds, reference_id \in ReferenceHashes,
          snaks \in SeqsUpTo(Snaks, MaxSnaks), index \in Indexes :
            args' = [claim_id |-> claim_id, reference_id |-> reference_id,
                     snaks |-> snaks, index |-> index]
    /\ op' = "update"
    /\ snak_dict' = EmptyDict
    /\ snaks_order' = <<>>
    /\ pos' = 1
    /\ pc' = "update_loop"
    /\ UNCHANGED <<params, posted, outcome>>

\* One iteration of the loop of lines 86-90.
UpdateLoop ==
    /\ pc = "update_loop"
    /\ pos <= Len(args.snaks)
    /\ LET snak == args.snaks[pos]
           property == dict_get(snak, "property")[2]
       IN  IF update_validate(snak)
           THEN /\ snak_dict' = snak_dict_append(snak_dict, property, snak)
                /\ snaks_order' = snaks_order_append(snaks_order, property)
                /\ pos' = pos + 1
                /\ UNCHANGED <<pc, outcome>>
           ELSE /\ pc' = "raised"
                /\ outcome' = "InvalidSnakError"
                /\ UNCHANGED <<snak_dict, snaks_order, pos>>
    /\ UNCHANGED <<op, args, params, posted>>

UpdateBuild ==
    /\ pc = "update_loop"
    /\ pos > Len(args.snaks)
    /\ params' = update_params(args.claim_id, args.reference_id, snak_dict,
                               snaks_order, args.index)
    /\ pc' = "post"
    /\ UNCHANGED <<op, args, snak_dict, snaks_order, pos, posted, outcome>>

CallRemove ==
    /\ pc = "idle"
    /\ \E claim_id \in ClaimIds, reference_ids \in ReferenceIdArgs :
            args' = [claim_id |-> claim_id, reference_ids |-> reference_ids]
    /\ op' = "remove"
    /\ pc' = "remove_build"
    /\ UNCHANGED <<snak_dict, snaks_order, pos, params, posted, outcome>>

RemoveBuild ==
    /\ pc = "remove_build"
    /\ params' = remove_params(args.claim_id, args.reference_ids)
    /\ pc' = "post"
    /\ UNCHANGED <<op, args, snak_dict, snaks_order, pos, posted, outcome>>

\* `return params`: the transport is not called.
Post_not_called ==
    /\ pc = "post"
    /\ outcome' = "response"
    /\ pc' = "returned"
    /\ UNCHANGED <<op, args, snak_dict, snaks_order, pos, params, posted>>

\* return self.api.post(params): the transport receives params and the
\* operation returns the transport's response.
Post ==
    /\ pc = "post"
    /\ posted' = Append(posted, params)
    /\ outcome' = "response"
    /\ pc' = "returned"
    /\ UNCHANGED <<op, args, snak_dict, snaks_order, pos, params>>

\* The call is over (returned or raised); its locals are gone.
Return ==
    /\ pc \in {"returned", "raised"}
    /\ pc' = "idle"
    /\ op' = "none"
    /\ args' = NoArgs
    /\ snak_dict' = EmptyDict
    /\ snaks_order' = <<>>
    /\ pos' = 0
    /\ params' = NoParams
    /\ posted' = <<>>
    /\ outcome' = "none"

Next ==
    \/ CallAdd
    \/ AddValidate
    \/ AddBuild
    \/ CallUpdate
    \/ UpdateLoop
    \/ UpdateBuild
    \/ CallRemove
    \/ RemoveBuild
    \/ Post
    \/ Return

Spec == Init /\ [][Next]_vars

\* ------------------------------------------------- reading a JSON document

JKeys(obj) == [k \in 1..Len(obj[2]) |-> obj[2][k][1]]

JHasKey(obj, key) == \E k \in 1..Len(obj[2]) : obj[2][k][1] = key

JValue(obj, key) ==
    LET k == CHOOSE k \in 1..Len(obj[2]) : obj[2][k][1] = key
    IN  obj[2][k][2]

\* The strings of a JSON array of strings.
JStrings(arr) == [k \in 1..Len(arr[2]) |-> arr[2][k][2]]

Built == DOMAIN params # {}

Sent == pc \in {"post", "returned"}

\* The property identifiers of update's snaks, in input order.
InputProperties ==
    [k \in 1..Len(args.snaks) |-> dict_get(args.snaks[k], "property")[2]]

\* The one snak of add's snaks payload.
AddedSnak == JValue(params["snaks"], args.property_id)[2][1]

\* ------------------------------------------------------------------ claims

\* The combinations the validator must reject.
InvalidCombination(value, snak_type) ==
    \/ snak_type \in {"novalue", "somevalue"} /\ value # None
    \/ snak_type = "value" /\ value = None

InvalidSnak(snak) ==
    InvalidCombination(dict_get(snak, "datavalue"),
                       dict_get(snak, "snaktype")[2])

\* C1: the validation applied by add and by update fails with
\* InvalidSnakError exactly when the snak type is novalue or somevalue and the
\* value is not None, or the snak type is value and the value is None; every
\* other combination passes.
C1_ValidatorContract ==
    /\ (op = "add" /\ pc \in {"add_build", "post", "returned"})
            => ~InvalidCombination(args.value, args.snak_type)
    /\ (op = "add" /\ pc = "raised")
            => /\ InvalidCombination(args.value, args.snak_type)
               /\ outcome = "InvalidSnakError"
    /\ (op = "update" /\ pc \in {"update_loop", "post", "returned", "raised"})
            => \A k \in 1..(pos - 1) : ~InvalidSnak(args.snaks[k])
    /\ (op = "update" /\ pc = "raised")
            => /\ InvalidSnak(args.snaks[pos])
               /\ outcome = "InvalidSnakError"

C1_Witness ==
    /\ op = "add"
    /\ pc = "raised"
    /\ args.snak_type = "somevalue"
    /\ args.value = PyStr("a")

RECURSIVE FirstSeen(_, _)
\* The distinct elements of s[1..n], each at the place of its first occurrence.
FirstSeen(s, n) ==
    IF n = 0 THEN <<>>
    ELSE IF \E j \in 1..(n - 1) : s[j] = s[n] THEN FirstSeen(s, n - 1)
    ELSE Append(FirstSeen(s, n - 1), s[n])

RECURSIVE RunsCollapsed(_, _)
\* s[1..n] with every run of equal neighbours reduced to its first element.
RunsCollapsed(s, n) ==
    IF n = 0 THEN <<>>
    ELSE IF n > 1 /\ s[n] = s[n - 1] THEN RunsCollapsed(s, n - 1)
    ELSE Append(RunsCollapsed(s, n - 1), s[n])

\* The input snaks whose property is p, in input order.
SnaksOf(p) ==
    SelectSeq(args.snaks, LAMBDA snak : dict_get(snak, "property")[2] = p)

\* C2: the order list sent by update as snaks-order holds each distinct
\* property identifier of the input exactly once, at the place of its first
\* occurrence, also when a property reappears non-consecutively.
C2_OrderListFirstSeen ==
    (op = "update" /\ Sent)
        => /\ params["snaks-order"][1] = "array"
           /\ JStrings(params["snaks-order"])
                = FirstSeen(InputProperties, Len(args.snaks))

\* C3: the grouping sent by update as snaks is an order-preserving partition
\* of the input: its keys are the input's properties in first-seen order, the
\* group of a property is the encoded subsequence of the input snaks with that
\* property, every input snak is in exactly one group, and the empty list
\* gives an empty group and an empty order list.
C3_GroupingPartition ==
    (op = "update" /\ Sent)
        => LET groups == params["snaks"]
           IN  /\ groups[1] = "object"
               /\ JKeys(groups) = FirstSeen(InputProperties, Len(args.snaks))
               /\ \A k \in 1..Len(groups[2]) :
                    LET p == groups[2][k][1]
                        group == groups[2][k][2]
                    IN  /\ group[1] = "array"
                        /\ Len(group[2]) = Len(SnaksOf(p))
                        /\ \A m \in 1..Len(group[2]) :
                              group[2][m] = json_dumps(SnaksOf(p)[m])
               /\ \A n \in 1..Len(args.snaks) :
                    Cardinality({k \in 1..Len(groups[2]) :
                        \E m \in 1..Len(groups[2][k][2][2]) :
                            groups[2][k][2][2][m] = json_dumps(args.snaks[n])})
                        = 1
               /\ Len(args.snaks) = 0
                    => /\ groups = <<"object", <<>>>>
                       /\ params["snaks-order"] = <<"array", <<>>>>

C3_Witness ==
    /\ op = "update"
    /\ pc = "post"
    /\ InputProperties = <<"P1", "P2", "P1">>
    /\ Len(JValue(params["snaks"], "P1")[2]) = 2
    /\ args.snaks[1] # args.snaks[3]

\* C4: add with snak type novalue or somevalue, value None and data type None
\* succeeds, and the one snak of its payload has no datavalue key and no
\* datatype key.
C4_NoValueSnakHasNoDatavalue ==
    /\ (op = "add" /\ args.snak_type \in {"novalue", "somevalue"}
            /\ args.value = None /\ args.data_type = None)
            => pc # "raised"
    /\ (op = "add" /\ Sent /\ args.snak_type \in {"novalue", "somevalue"}
            /\ args.value = None /\ args.data_type = None)
            => /\ ~JHasKey(AddedSnak, "datavalue")
               /\ ~JHasKey(AddedSnak, "datatype")

\* The descriptor of a successful add with snak type value, with `supplied`
\* saying when a data type counts as supplied.
AddDescriptor(supplied) ==
    (op = "add" /\ Sent /\ args.snak_type = "value")
        => /\ DOMAIN params \subseteq {"action", "statement", "snaks", "index"}
           /\ params["action"] = "wbsetreference"
           /\ params["statement"] = args.claim_id
           /\ params["snaks"][1] = "object"
           /\ JKeys(params["snaks"]) = <<args.property_id>>
           /\ params["snaks"][2][1][2][1] = "array"
           /\ Len(params["snaks"][2][1][2][2]) = 1
           /\ AddedSnak[1] = "object"
           /\ JValue(AddedSnak, "property") = <<"string", args.property_id>>
           /\ JValue(AddedSnak, "snaktype") = <<"string", "value">>
           /\ JValue(AddedSnak, "datavalue") = <<"string", args.value[2]>>
           /\ JHasKey(AddedSnak, "datatype") <=> supplied
           /\ supplied
                => JValue(AddedSnak, "datatype")
                        = <<"string", args.data_type[2]>>

\* C5 as stated: in the descriptor of a successful add with snak type value,
\* the snak has a datatype key, equal to the data type, if and only if a data
\* type was supplied (is not None).
C5_AddDescriptorAsStated == AddDescriptor(args.data_type # None)

\* C5: a successful add with snak type value gives action wbsetreference,
\* statement = claim_id, no reference and no snaks-order, and a snaks payload
\* with the one key property_id holding one snak with property, snaktype =
\* value, datavalue = value, and a datatype key, equal to the data type, if
\* and only if the data type is neither None nor the empty string.
C5_AddDescriptor ==
    AddDescriptor(args.data_type # None /\ args.data_type # PyStr(""))

C5_Witness ==
    /\ op = "add"
    /\ pc = "post"
    /\ args.snak_type = "value"
    /\ args.data_type = PyStr("url")
    /\ JValue(AddedSnak, "datatype") = <<"string", "url">>

RECURSIVE Split(_, _)
\* The pieces of the characters s between the separators c.
Split(s, c) ==
    IF \A k \in 1..Len(s) : s[k] # c THEN <<s>>
    ELSE LET k == CHOOSE k \in 1..Len(s) :
                    s[k] = c /\ \A j \in 1..(k - 1) : s[j] # c
         IN  <<SubSeq(s, 1, k - 1)>> \o Split(SubSeq(s, k + 1, Len(s)), c)

\* C6: remove gives action wbremovereferences, statement = claim_id and a
\* references field that is the identifier itself for a single str, the same
\* for the one-element list holding it, and for a list the identifiers in
\* input order joined by "|".
C6_RemoveReferences ==
    (op = "remove" /\ Sent)
        => LET ids == args.reference_ids[2]
               references == params["references"]
           IN  /\ DOMAIN params = {"action", "statement", "references"}
               /\ params["action"] = "wbremovereferences"
               /\ params["statement"] = args.claim_id
               /\ args.reference_ids[1] = "str" => references = ids
               /\ args.reference_ids[1] = "list"
                    => /\ Len(ids) = 0 => references = <<>>
                       /\ Len(ids) = 1 => references = ids[1]
                       /\ Len(ids) > 0 => Split(references, "|") = ids
                       /\ ids = <<<<"H", "1">>, <<"H", "2">>>>
                            => references = <<"H", "1", "|", "H", "2">>

C6_Witness ==
    /\ op = "remove"
    /\ pc = "post"
    /\ args.reference_ids = <<"list", <<<<"H", "1">>, <<"H", "2">>>>>>
    /\ params["references"] = <<"H", "1", "|", "H", "2">>

\* C7: validation is fail-fast: a call that raised has built no descriptor and
\* handed none to the transport, and a descriptor is built or handed over only
\* after the snak of add, or every snak of update's list, has passed
\* validation.
C7_FailFast ==
    /\ pc = "raised"
            => /\ outcome = "InvalidSnakError"
               /\ ~Built
               /\ Len(posted) = 0
    /\ (op = "add" /\ (Built \/ Len(posted) > 0))
            => ~InvalidCombination(args.value, args.snak_type)
    /\ (op = "update" /\ (Built \/ Len(posted) > 0))
            => \A k \in 1..Len(args.snaks) : ~InvalidSnak(args.snaks[k])

C7_Witness ==
    /\ op = "update"
    /\ pc = "raised"
    /\ pos = 3
    /\ Len(snak_dict[2]) > 0
    /\ ~Built
    /\ Len(posted) = 0

\* The string form of an int read back: the value of its digits.
RECURSIVE DigitsValue(_, _)
DigitsValue(s, n) ==
    IF n = 0 THEN 0
    ELSE 10 * DigitsValue(s, n - 1)
            + (CHOOSE d \in 0..9 : DigitChars[d + 1] = s[n])

\* C8: the descriptor of add and of update has an index field if and only if
\* an index was given, and the field is then the decimal string of that
\* integer; index 0 is carried as "0".
C8_IndexCarried ==
    (op \in {"add", "update"} /\ Sent)
        => /\ ("index" \in DOMAIN params) <=> (args.index # None)
           /\ args.index # None
                => /\ Len(params["index"]) > 0
                   /\ \A k \in 1..Len(params["index"]) :
                        \E d \in 0..9 : DigitChars[d + 1] = params["index"][k]
                   /\ Len(params["index"]) > 1 => params["index"][1] # "0"
                   /\ DigitsValue(params["index"], Len(params["index"]))
                        = args.index[2]
           /\ args.index = PyInt(0) => params["index"] = <<"0">>

C8_Witness ==
    /\ op = "add"
    /\ pc = "post"
    /\ args.index = PyInt(0)
    /\ params["index"] = <<"0">>

C10_ConsecutiveRunsCollapsed ==
    (op = "update" /\ pc \in {"update_loop", "post", "returned", "raised"})
        => /\ snaks_order = RunsCollapsed(InputProperties, pos - 1)
           /\ \A k \in 1..(Len(snaks_order) - 1) :
                snaks_order[k] # snaks_order[k + 1]
           /\ Sent => JStrings(params["snaks-order"]) = snaks_order

C10_Witness ==
    /\ op = "update"
    /\ pc = "post"
    /\ InputProperties = <<"P1", "P2", "P1">>
    /\ snaks_order = <<"P1", "P2", "P1">>

====
